---- MODULE Spec2Model ----
(***************************************************************************)
(* A model of the AssetPreloader class of script.js: the per-priority      *)
(* queues, the admission loop (_processQueue), the retry loop of           *)
(* _attemptLoad, pause/resume, and the events the class emits.             *)
(*                                                                         *)
(* Every registered asset object is a "task": an index into the sequence   *)
(* tasks, in registration order.  The queues hold task indices, the way    *)
(* the code's arrays hold references to asset objects.  An asynchronous    *)
(* _attemptLoad is a small process per task whose position is pc[t]:       *)
(*   "queued"   in queue[priority], not yet admitted                       *)
(*   "loading"  suspended at  await this._realLoad(asset)                  *)
(*   "delay"    suspended at  await this._delay(...)                       *)
(*   "settled"  _attemptLoad has returned, its .finally callback is queued *)
(*   "done"     the .finally callback has run                              *)
(* Wall-clock time is abstracted: a fetch attempt takes FetchMs, a backoff *)
(* delay takes what the code asks for, and the start timestamp of a run is *)
(* a single token (0 while load() has never set it).                       *)
(***************************************************************************)
EXTENDS Integers, Sequences, FiniteSets, TLC

\* ------------------------------------------------------------- bounds
MaxAdds == 2
MaxHigh == 1
FetchMs == 100

\* ------------------------------------------------------------- constants
DefaultTimeout == 3000
DefaultRetries == 1
BackoffBaseMs == 500

Classes == <<"high", "medium", "low">>
ClassSet == {"high", "medium", "low"}

\* Date.now() as load() reads it: one token stands for every timestamp
Now == 1
SupportedTypes == {"json", "text", "image", "script"}

\* The constructor argument: the per-class limits a scheduler is built with.
MaxConcurrentChoices ==
    {[high |-> h, medium |-> 1, low |-> 1] : h \in 1..MaxHigh}

\* Descriptors as a caller passes them to add().  A missing field is the
\* falsy/nullish value the code tests for: timeout 0, priority "", and an
\* empty option (<<>>) for retries and dependsOn; a present one is <<v>>.
Catalog ==
    { [id |-> "A", type |-> "json", priority |-> "high", timeout |-> 5000,
       retries |-> <<2>>, dependsOn |-> <<>>],
      [id |-> "B", type |-> "script", priority |-> "high", timeout |-> 0,
       retries |-> <<>>, dependsOn |-> << <<"A">> >>],
      [id |-> "C", type |-> "image", priority |-> "", timeout |-> 0,
       retries |-> <<0>>, dependsOn |-> << <<>> >>],
      [id |-> "D", type |-> "video", priority |-> "low", timeout |-> 0,
       retries |-> <<1>>, dependsOn |-> <<>>],
      [id |-> "E", type |-> "text", priority |-> "low", timeout |-> 0,
       retries |-> <<0>>, dependsOn |-> << <<"Z">> >>] }

VARIABLES
    maxConcurrent,  \* this.maxConcurrent
    assets,         \* this.assets: id -> task last registered under the id
    tasks,          \* the asset objects handed to add(), normalised, in order
    queue,          \* this.queue: class -> sequence of tasks
    concurrent,     \* this.concurrent
    loadedAssets,   \* this.loadedAssets
    failedAssets,   \* this.failedAssets
    stats,          \* this.stats
    etaSamples,     \* this.etaSamples
    paused,         \* this.paused
    running,        \* this.running
    startTime,      \* this.startTime (0: never set)
    pc,             \* position of each task's _attemptLoad
    attempt,        \* the loop variable of each task's _attemptLoad
    history,        \* per task: the retry/load/error events emitted for it
    emitted,        \* the events the last step emitted, in order
    admitted,       \* the tasks the last step handed to _attemptLoad, in order
    lastCall        \* the operation the last step ran

vars == <<maxConcurrent, assets, tasks, queue, concurrent, loadedAssets,
          failedAssets, stats, etaSamples, paused, running, startTime, pc,
          attempt, history, emitted, admitted, lastCall>>

TaskIds == 1..Len(tasks)

\* ------------------------------------------------------------- events
NoSnap == [kind |-> "none"]

Event(name, id, n, snap) == [name |-> name, id |-> id, n |-> n, snap |-> snap]

Names(evs) == [i \in 1..Len(evs) |-> evs[i].name]

Count(evs, name) == Cardinality({i \in 1..Len(evs) : evs[i].name = name})

\* ------------------------------------------------------------- constructor
Init ==
    /\ maxConcurrent \in MaxConcurrentChoices
    /\ assets = <<>>
    /\ tasks = <<>>
    /\ queue = [c \in ClassSet |-> <<>>]
    /\ concurrent = [c \in ClassSet |-> 0]
    /\ loadedAssets = {}
    /\ failedAssets = {}
    /\ stats = [total |-> 0, loaded |-> 0, failed |-> 0, remaining |-> 0,
                high |-> [total |-> 0, done |-> 0],
                medium |-> [total |-> 0, done |-> 0],
                low |-> [total |-> 0, done |-> 0]]
    /\ etaSamples = <<>>
    /\ paused = FALSE
    /\ running = FALSE
    /\ startTime = 0
    /\ pc = <<>>
    /\ attempt = <<>>
    /\ history = <<>>
    /\ emitted = <<>>
    /\ admitted = <<>>
    /\ lastCall = "new"

\* ------------------------------------------------------------- add
\* asset.retries ?? 1
NormRetries(opt) == IF opt = <<>> THEN DefaultRetries ELSE opt[1]

\* the four defaulting assignments of add()
Normalise(raw) ==
    [id |-> raw.id,
     type |-> raw.type,
     timeout |-> IF raw.timeout = 0 THEN DefaultTimeout ELSE raw.timeout,
     retries |-> NormRetries(raw.retries),
     priority |-> IF raw.priority = "" THEN "medium" ELSE raw.priority,
     dependsOn |-> IF raw.dependsOn = <<>> THEN <<>> ELSE raw.dependsOn[1]]

\* this.stats.total++; this.stats.remaining++; this.stats[priority].total++
StatsAdd(s, p) ==
    [s EXCEPT !.total = @ + 1, !.remaining = @ + 1, ![p].total = @ + 1]

add(raw) ==
    /\ Len(tasks) < MaxAdds
    /\ LET asset == Normalise(raw)
           t == Len(tasks) + 1
       IN /\ tasks' = Append(tasks, asset)
          /\ assets' = [i \in DOMAIN assets \cup {asset.id} |->
                            IF i = asset.id THEN t ELSE assets[i]]
          /\ queue' = [queue EXCEPT ![asset.priority] = Append(@, t)]
          /\ stats' = StatsAdd(stats, asset.priority)
          /\ pc' = Append(pc, "queued")
          /\ attempt' = Append(attempt, 0)
          /\ history' = Append(history, <<>>)
          /\ emitted' = <<>>
          /\ admitted' = <<>>
          /\ lastCall' = "add"
    /\ UNCHANGED <<maxConcurrent, concurrent, loadedAssets, failedAssets,
                   etaSamples, paused, running, startTime>>

\* ------------------------------------------------------------- _processQueue
\* a gate that asks whether the prerequisite is registered, not whether it
\* has reached a terminal state
dependenciesRegistered(asset, loaded, failed) ==
    \A i \in 1..Len(asset.dependsOn) : asset.dependsOn[i] \in DOMAIN assets

\* a gate that takes a prerequisite nobody registered as satisfied
dependenciesKnownResolved(asset, loaded, failed) ==
    \A i \in 1..Len(asset.dependsOn) :
        \/ asset.dependsOn[i] \notin DOMAIN assets
        \/ asset.dependsOn[i] \in loaded
        \/ asset.dependsOn[i] \in failed

\* asset.dependsOn.every(dep => loadedAssets.has(dep) || failedAssets.has(dep))
dependenciesResolved(asset, loaded, failed) ==
    \A i \in 1..Len(asset.dependsOn) :
        asset.dependsOn[i] \in loaded \/ asset.dependsOn[i] \in failed

\* a while condition that is off by one
SlotFreeInclusive(c, limit, q) == c <= limit /\ Len(q) > 0

\* the while condition of one class
SlotFree(c, limit, q) == c < limit /\ Len(q) > 0

\* a loop that leaves a task that is not eligible at the front of its queue
RECURSIVE AdmitClassKeepFront(_, _, _, _, _, _)
AdmitClassKeepFront(q, c, limit, adm, loaded, failed) ==
    IF SlotFree(c, limit, q)
    THEN LET t == Head(q)
         IN IF dependenciesResolved(tasks[t], loaded, failed)
            THEN AdmitClassKeepFront(Tail(q), c + 1, limit, Append(adm, t),
                                     loaded, failed)
            ELSE [queue |-> q, concurrent |-> c, admitted |-> adm]
    ELSE [queue |-> q, concurrent |-> c, admitted |-> adm]

\* The while loop of one priority class: q is the class's queue, c its
\* in-flight counter, adm the tasks handed to _attemptLoad so far.
RECURSIVE AdmitClass(_, _, _, _, _, _)
AdmitClass(q, c, limit, adm, loaded, failed) ==
    IF SlotFree(c, limit, q)
    THEN LET t == Head(q)
         IN IF dependenciesResolved(tasks[t], loaded, failed)
            THEN AdmitClass(Tail(q), c + 1, limit, Append(adm, t), loaded, failed)
            ELSE [queue |-> Append(Tail(q), t), concurrent |-> c, admitted |-> adm]
    ELSE [queue |-> q, concurrent |-> c, admitted |-> adm]

\* a completion test that waits for every resource to have loaded
AllLoaded(s) == s.loaded >= s.total

\* the completion test at the end of _processQueue
AllTerminal(s) == s.loaded + s.failed >= s.total

\* an early return that forgets the paused flag
SkipUnlessRunning(isPaused, isRunning) == ~isRunning

\* the early return of _processQueue
Skip(isPaused, isRunning) == isPaused \/ ~isRunning

\* _processQueue, run on the state (q, c, s, loaded, failed, isPaused,
\* isRunning) its caller has produced: the queues and counters it leaves, the
\* tasks it admitted in order (high, medium, low), the running flag and the
\* events it emitted.
_processQueue(q, c, s, loaded, failed, isPaused, isRunning) ==
    IF Skip(isPaused, isRunning)
    THEN [queue |-> q, concurrent |-> c, admitted |-> <<>>,
          running |-> isRunning, events |-> <<>>]
    ELSE LET h == AdmitClass(q.high, c.high, maxConcurrent.high, <<>>, loaded, failed)
             m == AdmitClass(q.medium, c.medium, maxConcurrent.medium, <<>>, loaded, failed)
             l == AdmitClass(q.low, c.low, maxConcurrent.low, <<>>, loaded, failed)
             complete == AllTerminal(s)
         IN [queue |-> [high |-> h.queue, medium |-> m.queue, low |-> l.queue],
             concurrent |-> [high |-> h.concurrent, medium |-> m.concurrent,
                             low |-> l.concurrent],
             admitted |-> h.admitted \o m.admitted \o l.admitted,
             running |-> IF complete THEN FALSE ELSE isRunning,
             events |-> IF complete
                        THEN <<Event("complete", "", 0,
                                     [kind |-> "complete", success |-> loaded,
                                      failed |-> failed])>>
                        ELSE <<>>]

\* _attemptLoad up to its first suspension: the loop is entered with
\* attempt = 1 and suspends at the first await, unless the loop condition
\* attempt <= retries + 1 is false at once.
EntersLoop(asset) == 1 <= asset.retries + 1

\* The caller's tail: run _processQueue and take over what it leaves.  pcs
\* and atts are the task positions and loop variables the caller has produced.
ThenProcessQueue(q, c, s, loaded, failed, isPaused, isRunning, pcs, atts, evs) ==
    LET r == _processQueue(q, c, s, loaded, failed, isPaused, isRunning)
        adm == {r.admitted[i] : i \in 1..Len(r.admitted)}
    IN /\ queue' = r.queue
       /\ concurrent' = r.concurrent
       /\ running' = r.running
       /\ admitted' = r.admitted
       /\ emitted' = evs \o r.events
       /\ pc' = [t \in DOMAIN pcs |->
                    IF t \in adm
                    THEN (IF EntersLoop(tasks[t]) THEN "loading" ELSE "settled")
                    ELSE pcs[t]]
       /\ attempt' = [t \in DOMAIN atts |-> IF t \in adm THEN 1 ELSE atts[t]]

\* ------------------------------------------------------------- load
\* a load() without its guard
NeverRunning(isRunning) == FALSE

\* if (this.running) return;
AlreadyRunning(isRunning) == isRunning

load ==
    /\ lastCall' = "load"
    /\ IF AlreadyRunning(running)
       THEN /\ emitted' = <<>>
            /\ admitted' = <<>>
            /\ UNCHANGED <<maxConcurrent, assets, tasks, queue, concurrent,
                           loadedAssets, failedAssets, stats, etaSamples,
                           paused, running, startTime, pc, attempt, history>>
       ELSE /\ startTime' = Now
            /\ UNCHANGED <<maxConcurrent, assets, tasks, loadedAssets,
                           failedAssets, stats, etaSamples, paused, history>>
            /\ ThenProcessQueue(queue, concurrent, stats, loadedAssets,
                                failedAssets, paused, TRUE, pc, attempt,
                                <<Event("start", "", 0, NoSnap)>>)

\* ------------------------------------------------------------- pause, resume
\* a pause() that notifies the subscribers of `exit`
PauseEventsExit == <<Event("exit", "", 0, NoSnap)>>

\* the events pause() emits
PauseEvents == <<>>

pause ==
    /\ paused' = TRUE
    /\ emitted' = PauseEvents
    /\ admitted' = <<>>
    /\ lastCall' = "pause"
    /\ UNCHANGED <<maxConcurrent, assets, tasks, queue, concurrent,
                   loadedAssets, failedAssets, stats, etaSamples, running,
                   startTime, pc, attempt, history>>

resume ==
    /\ lastCall' = "resume"
    /\ IF ~paused
       THEN /\ emitted' = <<>>
            /\ admitted' = <<>>
            /\ UNCHANGED <<maxConcurrent, assets, tasks, queue, concurrent,
                           loadedAssets, failedAssets, stats, etaSamples,
                           paused, running, startTime, pc, attempt, history>>
       ELSE /\ paused' = FALSE
            /\ UNCHANGED <<maxConcurrent, assets, tasks, loadedAssets,
                           failedAssets, stats, etaSamples, startTime, history>>
            /\ ThenProcessQueue(queue, concurrent, stats, loadedAssets,
                                failedAssets, FALSE, running, pc, attempt, <<>>)

\* ------------------------------------------------------------- _attemptLoad
\* _realLoad: the default branch of the switch rejects at once; every other
\* kind is a transfer that the environment resolves or rejects.
CanResolve(asset) == asset.type \in SupportedTypes

\* 500 * Math.pow(2, attempt - 1)
Backoff(k) == BackoffBaseMs * 2 ^ (k - 1)

RECURSIVE BackoffSum(_)
BackoffSum(k) == IF k <= 0 THEN 0 ELSE Backoff(k) + BackoffSum(k - 1)

\* Date.now() - start, when attempt k resolves: start is taken once, before
\* the loop, so k fetches and the k - 1 backoff delays between them have passed.
Duration(k) == k * FetchMs + BackoffSum(k - 1)

\* Math.round of the non-negative quotient a / b
Round(a, b) == (2 * a + b) \div (2 * b)

RECURSIVE Sum(_)
Sum(seq) == IF seq = <<>> THEN 0 ELSE Head(seq) + Sum(Tail(seq))

\* an estimate from the number registered, not the number remaining
EtaOfTotal(samples, s) ==
    LET avgTime == IF Len(samples) > 0
                   THEN Round(Sum(samples), Len(samples))
                   ELSE 0
    IN avgTime * s.total

\* the etaMs of _reportProgress
Eta(samples, s) ==
    LET avgTime == IF Len(samples) > 0
                   THEN Round(Sum(samples), Len(samples))
                   ELSE 0
    IN avgTime * s.remaining

\* _reportProgress(currentId): the progress event, from the stats and the
\* samples as they are at the call
_reportProgress(currentId, s, samples) ==
    Event("progress", currentId, 0,
          [kind |-> "progress",
           total |-> s.total, loaded |-> s.loaded, failed |-> s.failed,
           remaining |-> s.remaining,
           percentage |-> Round((s.loaded + s.failed) * 100, s.total),
           etaMs |-> Eta(samples, s),
           high |-> s.high, medium |-> s.medium, low |-> s.low,
           samples |-> samples])

\* the counters of the success branch
StatsLoaded(s, p) ==
    [s EXCEPT !.loaded = @ + 1, !.remaining = @ - 1, ![p].done = @ + 1]

\* the counters of the final-failure branch
StatsFailed(s, p) ==
    [s EXCEPT !.failed = @ + 1, !.remaining = @ - 1]

\* a success branch that emits `load` first
SuccessEventsLoadFirst(asset, s, samples) ==
    <<Event("load", asset.id, 0, NoSnap), _reportProgress(asset.id, s, samples)>>

\* the events of the success branch, in the order the code emits them
SuccessEvents(asset, s, samples) ==
    <<_reportProgress(asset.id, s, samples), Event("load", asset.id, 0, NoSnap)>>

\* the events of the final-failure branch, in the order the code emits them
FailureEvents(asset, s, samples) ==
    <<_reportProgress(asset.id, s, samples), Event("error", asset.id, 0, NoSnap)>>

\* a retry test that is off by one
RetriesLeftStrict(asset, k) == k < asset.retries

\* if (attempt <= asset.retries) in the catch block
RetriesLeft(asset, k) == k <= asset.retries

\* await this._realLoad(asset) resolves: the try block up to its return
LoadResolved(t) ==
    /\ t \in TaskIds
    /\ pc[t] = "loading"
    /\ CanResolve(tasks[t])
    /\ LET asset == tasks[t]
           samples == Append(etaSamples, Duration(attempt[t]))
           s == StatsLoaded(stats, asset.priority)
           evs == SuccessEvents(asset, s, samples)
       IN /\ etaSamples' = samples
          /\ loadedAssets' = loadedAssets \cup {asset.id}
          /\ stats' = s
          /\ emitted' = evs
          /\ history' = [history EXCEPT ![t] = Append(@, evs[Len(evs)])]
          /\ pc' = [pc EXCEPT ![t] = "settled"]
    /\ admitted' = <<>>
    /\ lastCall' = "resolved"
    /\ UNCHANGED <<maxConcurrent, assets, tasks, queue, concurrent,
                   failedAssets, paused, running, startTime, attempt>>

\* await this._realLoad(asset) rejects: the catch block, up to the next
\* suspension (the backoff delay) or the end of the loop
LoadRejected(t) ==
    /\ t \in TaskIds
    /\ pc[t] = "loading"
    /\ LET asset == tasks[t]
       IN IF RetriesLeft(asset, attempt[t])
          THEN /\ emitted' = <<Event("retry", asset.id, attempt[t], NoSnap)>>
               /\ history' = [history EXCEPT ![t] = Append(@, emitted'[1])]
               /\ pc' = [pc EXCEPT ![t] = "delay"]
               /\ UNCHANGED <<failedAssets, stats>>
          ELSE LET s == StatsFailed(stats, asset.priority)
                   evs == FailureEvents(asset, s, etaSamples)
               IN /\ failedAssets' = failedAssets \cup {asset.id}
                  /\ stats' = s
                  /\ emitted' = evs
                  /\ history' = [history EXCEPT ![t] = Append(@, evs[Len(evs)])]
                  /\ pc' = [pc EXCEPT ![t] = "settled"]
    /\ admitted' = <<>>
    /\ lastCall' = "rejected"
    /\ UNCHANGED <<maxConcurrent, assets, tasks, queue, concurrent,
                   loadedAssets, etaSamples, paused, running, startTime,
                   attempt>>

\* await this._delay(...) is over: attempt++, the loop condition, and the
\* next call of _realLoad
DelayOver(t) ==
    /\ t \in TaskIds
    /\ pc[t] = "delay"
    /\ attempt' = [attempt EXCEPT ![t] = @ + 1]
    /\ pc' = [pc EXCEPT ![t] =
                IF attempt'[t] <= tasks[t].retries + 1 THEN "loading" ELSE "settled"]
    /\ emitted' = <<>>
    /\ admitted' = <<>>
    /\ lastCall' = "delayed"
    /\ UNCHANGED <<maxConcurrent, assets, tasks, queue, concurrent,
                   loadedAssets, failedAssets, stats, etaSamples, paused,
                   running, startTime, history>>

\* the .finally callback of an admitted task
Finally(t) ==
    /\ t \in TaskIds
    /\ pc[t] = "settled"
    /\ lastCall' = "finally"
    /\ UNCHANGED <<maxConcurrent, assets, tasks, loadedAssets, failedAssets,
                   stats, etaSamples, paused, startTime, history>>
    /\ ThenProcessQueue(queue,
                        [concurrent EXCEPT ![tasks[t].priority] = @ - 1],
                        stats, loadedAssets, failedAssets, paused, running,
                        [pc EXCEPT ![t] = "done"], attempt, <<>>)

Next ==
    \/ \E raw \in Catalog : add(raw)
    \/ load
    \/ pause
    \/ resume
    \/ \E t \in 1..MaxAdds : LoadResolved(t)
    \/ \E t \in 1..MaxAdds : LoadRejected(t)
    \/ \E t \in 1..MaxAdds : DelayOver(t)
    \/ \E t \in 1..MaxAdds : Finally(t)


Spec == Init /\ [][Next]_vars

\* ------------------------------------------------------------- shorthands
Range(seq) == {seq[i] : i \in 1..Len(seq)}

\* the tasks of class c that were admitted and have no terminal outcome yet
InFlight(c) ==
    {t \in TaskIds : tasks[t].priority = c /\ pc[t] \in {"loading", "delay"}}

Terminal == loadedAssets \cup failedAssets

\* every prerequisite of task t is loaded or failed
Eligible(t) == Range(tasks[t].dependsOn) \subseteq Terminal

\* ------------------------------------------------------------- C1
\* C1: in every reachable state, for each priority class, the number of
\* tasks of the class that were admitted and have not reached a terminal
\* state is at most the class's limit (and so is the in-flight counter).
C1_ConcurrencyBound ==
    \A c \in ClassSet :
        /\ Cardinality(InFlight(c)) <= maxConcurrent[c]
        /\ concurrent[c] <= maxConcurrent[c]

\* a class is full while an eligible task of it waits in the queue
C1_Witness ==
    \E c \in ClassSet :
        /\ running /\ ~paused
        /\ Cardinality(InFlight(c)) = maxConcurrent[c]
        /\ \E t \in Range(queue[c]) : Eligible(t)

\* ------------------------------------------------------------- C2
\* C2: every task a step hands to _attemptLoad has, at that moment, each id
\* of its dependsOn list in the loaded set or in the failed set.
C2_AdmittedOnlyWhenResolved ==
    \A t \in Range(admitted) :
        \A i \in 1..Len(tasks[t].dependsOn) :
            tasks[t].dependsOn[i] \in loadedAssets
                \/ tasks[t].dependsOn[i] \in failedAssets

\* a dependent is admitted on the strength of a failed prerequisite alone
C2_Witness ==
    \E t \in Range(admitted) :
        /\ Len(tasks[t].dependsOn) > 0
        /\ \A d \in Range(tasks[t].dependsOn) :
               d \in failedAssets /\ d \notin loadedAssets

\* ------------------------------------------------------------- C3
AllDone == \A t \in TaskIds : pc[t] = "done"

\* C3: whenever `complete` is emitted, every registered resource is in the
\* loaded or the failed set, the two sets are disjoint, and their sizes add
\* up to the number of registered resources.
C3_CompleteMeansAllTerminal ==
    Count(emitted, "complete") > 0 =>
        /\ \A t \in TaskIds : tasks[t].id \in Terminal
        /\ loadedAssets \cap failedAssets = {}
        /\ Cardinality(loadedAssets) + Cardinality(failedAssets) = stats.total

\* no id has been registered twice
DistinctIds == \A t, u \in TaskIds : tasks[t].id = tasks[u].id => t = u

\* C3, for runs in which no id is registered twice
C3_DistinctIdsCompleteMeansAllTerminal ==
    DistinctIds => C3_CompleteMeansAllTerminal

C3_Witness ==
    /\ Count(emitted, "complete") > 0
    /\ DistinctIds
    /\ loadedAssets # {}
    /\ failedAssets # {}

\* ------------------------------------------------------------- C4
\* the run has been started
Started == startTime # 0

\* `complete` has been emitted for the run that load() started: the code
\* clears running only where it emits `complete`
CompleteEmitted == Started /\ ~running

\* C4 as stated: in a started run, once every registered resource is
\* terminal and its completion handler has run, `complete` has been emitted.
C4_CompleteOnceAllTerminal ==
    (Started /\ Len(tasks) > 0 /\ AllDone) => CompleteEmitted

\* C4 as amended: the same, unless the run is paused; a resume() of such a
\* run emits `complete`.
C4_CompleteUnlessPaused ==
    [][ /\ (Started' /\ AllDone' /\ ~paused') => CompleteEmitted'
        /\ (Started /\ AllDone /\ running /\ paused /\ ~paused')
               => Count(emitted', "complete") = 1 ]_vars

\* a run completes although every resource of it failed
C4_Witness ==
    /\ Count(emitted, "complete") = 1
    /\ AllDone
    /\ Len(tasks) >= 2
    /\ DistinctIds
    /\ loadedAssets = {}
    /\ lastCall = "finally"

\* a paused run whose resources are all terminal is completed by resume()
C4_WitnessResume ==
    /\ Count(emitted, "complete") = 1
    /\ AllDone
    /\ Len(tasks) > 0
    /\ lastCall = "resume"

\* ------------------------------------------------------------- C5
\* the descriptor the caller passed for task t (ids are unique in Catalog)
RawOf(t) == CHOOSE raw \in Catalog : raw.id = tasks[t].id

\* the retry budget of task t: the caller's, or 1 when unspecified
Budget(t) == IF RawOf(t).retries = <<>> THEN 1 ELSE RawOf(t).retries[1]

Retries(h) == {i \in 1..Len(h) : h[i].name = "retry"}

\* C5: a task with budget r makes at most r + 1 attempts; its events are
\* retry(1), ..., retry(j) with j <= r, one per failed attempt that is not
\* the last one allowed, then exactly one of `load` and `error`, `error`
\* only after r retries; nothing follows the terminal event.
C5_RetryProtocol ==
    \A t \in TaskIds :
        LET h == history[t]
            r == Budget(t)
            j == Cardinality(Retries(h))
        IN /\ attempt[t] <= r + 1
           /\ j <= r
           /\ \A i \in 1..j : h[i].name = "retry" /\ h[i].n = i
           /\ Len(h) <= j + 1
           /\ pc[t] = "queued" => h = <<>>
           /\ pc[t] = "loading" => Len(h) = j /\ j = attempt[t] - 1
           /\ pc[t] = "delay" => Len(h) = j /\ j = attempt[t]
           /\ pc[t] \in {"settled", "done"} =>
                  /\ Len(h) = j + 1
                  /\ h[j + 1].name \in {"load", "error"}
                  /\ h[j + 1].name = "error" => j = r /\ attempt[t] = r + 1
                  /\ h[j + 1].name = "load" => attempt[t] = j + 1

\* retries = 2: two failed attempts, then success
C5_Witness ==
    \E t \in TaskIds :
        /\ Budget(t) = 2
        /\ Names(history[t]) = <<"retry", "retry", "load">>
        /\ history[t][1].n = 1 /\ history[t][2].n = 2

\* retries unspecified: one retry, then the error
C5_WitnessDefault ==
    \E t \in TaskIds :
        /\ RawOf(t).retries = <<>>
        /\ Names(history[t]) = <<"retry", "error">>

\* ------------------------------------------------------------- C6
\* C6: an add() of an id that is already registered leaves the queues and
\* the counters as they were.
C6_DuplicateRejected ==
    [][ (Len(tasks') > Len(tasks) /\ tasks'[Len(tasks')].id \in DOMAIN assets)
            => (queue' = queue /\ stats' = stats) ]_vars

\* ------------------------------------------------------------- C7
\* C7: a task of an unsupported kind makes one attempt only: no `retry`
\* event and no backoff delay, whatever its retry budget.
C7_UnsupportedNoRetry ==
    \A t \in TaskIds :
        tasks[t].type \notin SupportedTypes =>
            /\ pc[t] # "delay"
            /\ Retries(history[t]) = {}
            /\ attempt[t] <= 1

\* ------------------------------------------------------------- C8
\* the last entry of a class queue is not eligible (it was put back), the
\* queue is empty, or the class is full
ServedFromFront(c) ==
    \/ queue[c] = <<>>
    \/ concurrent[c] >= maxConcurrent[c]
    \/ ~Eligible(queue[c][Len(queue[c])])

\* no eligible task is left in the queue of a class that has a free slot
NoEligibleLeft(c) ==
    \/ concurrent[c] >= maxConcurrent[c]
    \/ \A t \in Range(queue[c]) : ~Eligible(t)

\* the step is a resume() that clears the flag of a running run
ResumesRun == paused /\ ~paused' /\ running

\* what C8 says of every step, but for what resume() admits
C8_Common ==
    /\ paused' => admitted' = <<>>
    /\ (paused /\ paused') =>
           \A t \in TaskIds : pc[t] = "queued" => pc'[t] = "queued"
    /\ lastCall' = "pause" =>
           /\ pc' = pc /\ attempt' = attempt
           /\ concurrent' = concurrent /\ queue' = queue
    /\ \A t \in TaskIds :
           (paused /\ pc[t] \in {"loading", "delay", "settled"}) =>
               ENABLED (LoadRejected(t) \/ DelayOver(t) \/ Finally(t))
    /\ \A i \in 1..Len(admitted') :
           LET t == admitted'[i]
           IN /\ t \in TaskIds
              /\ pc[t] = "queued"
              /\ pc'[t] = "loading"
              /\ t \in Range(queue[tasks[t].priority])
              /\ t \notin Range(queue'[tasks[t].priority])
              /\ Range(tasks[t].dependsOn) \subseteq Terminal'
              /\ \A j \in 1..Len(admitted') : admitted'[j] = t => j = i
    /\ \A t \in TaskIds :
           pc[t] # "queued" =>
               /\ pc'[t] # "queued"
               /\ attempt'[t] >= attempt[t]
               /\ t \notin Range(admitted')

C10_LoadIdempotent ==
    [][ (lastCall' = "load" /\ running) =>
            /\ emitted' = <<>>
            /\ admitted' = <<>>
            /\ UNCHANGED <<startTime, queue, concurrent, loadedAssets,
                           failedAssets, stats, etaSamples, paused, running,
                           pc, attempt, history, tasks, assets>> ]_vars

\* load() was called on a running run in which an eligible task waited for
\* a free slot: it stays queued
C10_Witness ==
    /\ lastCall = "load"
    /\ emitted = <<>>
    /\ running /\ ~paused
    /\ \E c \in ClassSet :
           /\ concurrent[c] < maxConcurrent[c]
           /\ \E t \in Range(queue[c]) : Eligible(t)

\* ------------------------------------------------------------- C11
\* the progress events of the last step
ProgressEvents == {i \in 1..Len(emitted) : emitted[i].name = "progress"}

\* high limit + medium limit + low limit, at least 1
TotalConcurrency ==
    LET total == maxConcurrent.high + maxConcurrent.medium + maxConcurrent.low
    IN IF total < 1 THEN 1 ELSE total

\* C11: in a progress snapshot taken with at least one sample and at least
\* one resource remaining, etaMs is average(samples) * remaining divided by
\* max(1, sum of the class limits), to the nearest millisecond.
C11_EtaDividedByConcurrency ==
    \A i \in ProgressEvents :
        LET p == emitted[i].snap
            exact == Round(Sum(p.samples), Len(p.samples)) * p.remaining
        IN (Len(p.samples) > 0 /\ p.remaining > 0) =>
               /\ p.etaMs * TotalConcurrency <= exact + TotalConcurrency
               /\ p.etaMs * TotalConcurrency >= exact - TotalConcurrency

\* ------------------------------------------------------------- C12
\* C12: a progress snapshot taken with no sample, or with nothing
\* remaining, has etaMs = 0.
C12_EtaZero ==
    \A i \in ProgressEvents :
        LET p == emitted[i].snap
        IN (p.samples = <<>> \/ p.remaining = 0) => p.etaMs = 0

\* the last resource loads: a sample exists and nothing remains
C12_Witness ==
    \E i \in ProgressEvents :
        LET p == emitted[i].snap
        IN p.samples # <<>> /\ p.remaining = 0 /\ p.total >= 2 /\ p.etaMs = 0

\* a resource fails before any has loaded: no sample, one remaining
C12_WitnessNoSample ==
    \E i \in ProgressEvents :
        LET p == emitted[i].snap
        IN p.samples = <<>> /\ p.remaining > 0 /\ p.etaMs = 0

\* ------------------------------------------------------------- C13
TerminalEvents ==
    {i \in 1..Len(emitted) : emitted[i].name \in {"load", "error"}}

\* C13 as stated: `load` (on success) and `error` (on final failure) are
\* emitted before the progress snapshot of the same outcome.
C13_TerminalEventThenProgress ==
    \A i \in TerminalEvents :
        /\ i < Len(emitted)
        /\ emitted[i + 1].name = "progress"
        /\ emitted[i + 1].id = emitted[i].id

\* C13 as amended: the progress snapshot of an outcome is emitted first,
\* `load` or `error` right after it.
C13_ProgressThenTerminalEvent ==
    /\ \A i \in TerminalEvents :
           /\ i > 1
           /\ emitted[i - 1].name = "progress"
           /\ emitted[i - 1].id = emitted[i].id
    /\ \A i \in ProgressEvents :
           /\ i < Len(emitted)
           /\ emitted[i + 1].name \in {"load", "error"}

C13_Witness ==
    /\ Names(emitted) = <<"progress", "load">>
    /\ emitted[1].id = emitted[2].id
    /\ emitted[1].snap.loaded = 1

C13_WitnessError ==
    /\ Names(emitted) = <<"progress", "error">>
    /\ emitted[1].snap.failed = 1

\* ------------------------------------------------------------- C14
\* the ids some add() can register
RegistrableIds == {raw.id : raw \in Catalog}

\* task t lists a prerequisite that is never registered
Unresolvable(t) == \E d \in Range(tasks[t].dependsOn) : d \notin RegistrableIds

\* C14: a task with a prerequisite that is never registered stays in its
\* queue; while the registered resources are all of that kind no step
\* emits `complete`, and a load() leaves the run running.
C14_UnregisteredPrerequisiteStalls ==
    /\ \A t \in TaskIds :
           Unresolvable(t) =>
               /\ pc[t] = "queued"
               /\ t \in Range(queue[tasks[t].priority])
    /\ (tasks # <<>> /\ \A t \in TaskIds : Unresolvable(t)) =>
           /\ Count(emitted, "complete") = 0
           /\ lastCall = "load" => running

\* the sole resource waits for an unregistered id; load(), pause() and
\* resume() have been called
C14_Witness ==
    /\ Len(tasks) = 1
    /\ Unresolvable(1)
    /\ lastCall = "resume"
    /\ running /\ ~paused
    /\ queue[tasks[1].priority] = <<1>>

\* ------------------------------------------------------------- C15
\* how often task t occurs in the queue of class c
Occurrences(t, c) == Cardinality({i \in 1..Len(queue[c]) : queue[c][i] = t})

QueuedTimes(t) ==
    Occurrences(t, "high") + Occurrences(t, "medium") + Occurrences(t, "low")

\* task t is in exactly one of queued, in-flight, loaded, failed
InOneState(t) ==
    LET id == tasks[t].id
    IN /\ pc[t] = "queued" =>
              /\ QueuedTimes(t) = 1
              /\ Occurrences(t, tasks[t].priority) = 1
              /\ id \notin Terminal
       /\ pc[t] \in {"loading", "delay"} =>
              /\ QueuedTimes(t) = 0
              /\ id \notin Terminal
       /\ pc[t] \in {"settled", "done"} =>
              /\ QueuedTimes(t) = 0
              /\ id \in Terminal

\* the ids for which event name was emitted
IdsWith(name) ==
    {tasks[t].id : t \in {u \in TaskIds :
                             \E i \in 1..Len(history[u]) : history[u][i].name = name}}

ExactlyOneState ==
    /\ \A t \in TaskIds : InOneState(t)
    /\ loadedAssets \cap failedAssets = {}
    /\ IdsWith("load") \cap IdsWith("error") = {}

\* a terminal task stays as it is, and the two sets only grow
TerminalIsFinal ==
    /\ loadedAssets \subseteq loadedAssets'
    /\ failedAssets \subseteq failedAssets'
    /\ \A t \in TaskIds :
           pc[t] \in {"settled", "done"} =>
               /\ pc'[t] \in {"settled", "done"}
               /\ history'[t] = history[t]

\* C15: every registered resource is in exactly one of the states queued
\* (once, in one class queue), in-flight, loaded, failed; the loaded and the
\* failed set are disjoint and only grow; a terminal resource never changes
\* state again and never gets both `load` and `error`.
C15_ExactlyOneStateAlways ==
    [][ExactlyOneState' /\ TerminalIsFinal]_vars

\* C15, for runs in which no id is registered twice
C15_DistinctIdsExactlyOneState ==
    [][DistinctIds' => (ExactlyOneState' /\ TerminalIsFinal)]_vars

\* ------------------------------------------------------------- C16
\* the step runs an admission pass (_processQueue past its early return)
PassRuns ==
    \/ lastCall' = "load" /\ ~running /\ ~paused
    \/ lastCall' = "resume" /\ paused /\ running
    \/ lastCall' = "finally" /\ ~paused /\ running

\* the slots class c has free when the pass begins: a .finally callback has
\* given back the slot of its task
FreeSlots(c) ==
    maxConcurrent[c] - concurrent[c]
        + Cardinality({t \in TaskIds : /\ tasks[t].priority = c
                                       /\ pc[t] = "settled"
                                       /\ pc'[t] = "done"})

ClassRank(c) == CHOOSE i \in 1..3 : Classes[i] = c

\* what one pass does to class c: it admits the first k tasks of the
\* queue, all eligible; if it stops with a slot free and the queue not
\* empty, the task at the front is not eligible and goes to the tail, and
\* nothing behind it is admitted
PassOfClass(c) ==
    LET q == queue[c]
        adm == SelectSeq(admitted', LAMBDA t : tasks[t].priority = c)
        k == Len(adm)
    IN /\ k <= Len(q)
       /\ k <= FreeSlots(c)
       /\ adm = SubSeq(q, 1, k)
       /\ \A i \in 1..k : Range(tasks[q[i]].dependsOn) \subseteq Terminal'
       /\ IF k < Len(q) /\ k < FreeSlots(c)
          THEN /\ ~(Range(tasks[q[k + 1]].dependsOn) \subseteq Terminal')
               /\ queue'[c] = Append(SubSeq(q, k + 2, Len(q)), q[k + 1])
          ELSE queue'[c] = SubSeq(q, k + 1, Len(q))

\* C16: in one admission pass a popped task that is not eligible is
\* appended to the tail of its queue and ends the pass of its class, also
\* with slots free and an eligible task behind it; every class gets its pass,
\* in the order high, medium, low.
C16_BlockedHeadEndsClassPass ==
    [][ PassRuns =>
            /\ \A c \in ClassSet : PassOfClass(c)
            /\ \A i, j \in 1..Len(admitted') :
                   i < j => ClassRank(tasks[admitted'[i]].priority)
                                <= ClassRank(tasks[admitted'[j]].priority) ]_vars

\* load() has moved the blocked first task behind the second one, which is
\* eligible and stays queued although a slot is free
C16_Witness ==
    /\ lastCall = "load"
    /\ running /\ ~paused
    /\ admitted = <<>>
    /\ \E c \in ClassSet :
           /\ queue[c] = <<2, 1>>
           /\ ~Eligible(1)
           /\ Eligible(2)
           /\ concurrent[c] < maxConcurrent[c]

\* ------------------------------------------------------------- C17
\* C17: every sample is the duration of one fetch attempt, the successful
\* one, and only successes append a sample.
C17_SampleIsSuccessfulAttemptOnly ==
    /\ Len(etaSamples) = stats.loaded
    /\ \A i \in 1..Len(etaSamples) : etaSamples[i] = FetchMs

\* ------------------------------------------------------------- C18
\* the ids that the tasks registered under id list as prerequisites
PrerequisitesOf(id) ==
    UNION {Range(tasks[t].dependsOn) : t \in {u \in TaskIds : tasks[u].id = id}}

RECURSIVE Reach(_, _)
Reach(ids, n) ==
    IF n = 0 THEN ids
    ELSE Reach(ids \cup UNION {PrerequisitesOf(i) : i \in ids}, n - 1)

\* every prerequisite is registered, no id is registered twice, the
\* dependency graph has no cycle and every class limit is at least 1
WellFormed ==
    /\ DistinctIds
    /\ \A t \in TaskIds : Range(tasks[t].dependsOn) \subseteq DOMAIN assets
    /\ \A t \in TaskIds :
           tasks[t].id \notin Reach(Range(tasks[t].dependsOn), Len(tasks))
    /\ \A c \in ClassSet : maxConcurrent[c] >= 1

\* some step of the scheduler is pending: a fetch, a backoff delay or a
\* .finally callback
WorkPending == \E t \in TaskIds : pc[t] \in {"loading", "delay", "settled"}

\* C18, as far as a finite run shows it: right after the load() that starts
\* a well-formed run that is not paused, either the run is complete or some
\* step is pending that can take a resource on; otherwise no resource ever
\* reaches a terminal state unless the caller intervenes.
C18_WellFormedRunGoesOn ==
    (/\ WellFormed
     /\ tasks # <<>>
     /\ lastCall = "load"
     /\ Count(emitted, "start") = 1
     /\ ~paused)
        => (WorkPending \/ Count(emitted, "complete") = 1)

\* ------------------------------------------------------------- C19
\* C19: with the registered resources fixed, `complete` is emitted at most
\* once: never twice in one step, and never in a step taken after it has
\* been emitted.
C19_CompleteAtMostOnce ==
    [][ /\ Count(emitted', "complete") <= 1
        /\ (CompleteEmitted /\ tasks # <<>> /\ tasks' = tasks)
               => Count(emitted', "complete") = 0 ]_vars

\* C19, but for the load() calls made after the run has completed
C19_CompleteOncePerLoad ==
    [][ /\ Count(emitted', "complete") <= 1
        /\ (CompleteEmitted /\ tasks' = tasks /\ lastCall' # "load")
               => Count(emitted', "complete") = 0 ]_vars

\* ------------------------------------------------------------- C20
\* the tasks of class c with a terminal outcome
TerminalTasks(c) ==
    {t \in TaskIds : tasks[t].priority = c /\ pc[t] \in {"settled", "done"}}

\* C20: the done counter of each class is the number of the class's
\* resources with a terminal outcome, and equals the class total when
\* `complete` is emitted.
C20_DoneCountsTerminal ==
    \A c \in ClassSet :
        /\ stats[c].done = Cardinality(TerminalTasks(c))
        /\ Count(emitted, "complete") > 0 => stats[c].done = stats[c].total

\* C20, with the resources that loaded in place of the terminal ones
C20_DoneCountsLoaded ==
    \A c \in ClassSet :
        stats[c].done =
            Cardinality({t \in TerminalTasks(c) :
                            history[t][Len(history[t])].name = "load"})
====
